---- MODULE Spec2Model ----
(***************************************************************************)
(* The resumable multipart uploader (OssUploader in src/src/biz/Uploader.ts)*)
(* as a state machine.  Each caller operation (upload, pause, resume, stop) *)
(* and each continuation of the asynchronous uploadWork (token response,    *)
(* progress callback, transfer result, retry timer) is one action.  The     *)
(* collaborators (token provider, transfer primitive, decision function,    *)
(* beforeRetry observer, clock) are the environment: their answers are      *)
(* drawn from small sets.                                                   *)
(***************************************************************************)
EXTENDS Integers, Sequences, FiniteSets, TLC

\* ------------------------------------------------------------------ bounds
\* upload() invocations of a behaviour (direct ones and those made by resume())
MaxChains == 2
\* the clock runs from 1 to MaxTime
MaxTime == 2
\* parts of a multipart transfer: the primitive reports progress k/Parts
Parts == 2
\* the instance option maxTryCount is drawn from 0..MaxRetry
MaxRetry == 1
\* the instance option expireTime, in clock ticks
ExpireTicks == 0
\* the iterations option of interval is drawn from 0..MaxIter and Infinity
MaxIter == 3
\* an interval that would go on calls func at most MaxCalls times
MaxCalls == 4
\* where the store is drawn freely, expireTime is drawn from 0..MaxAge
MaxAge == 1

\* --------------------------------------------------------- values and null
Null == [null |-> TRUE]
Undefined == [undefined |-> TRUE]

\* OssFileType / OssSubCategory members; 0 stands for an unset (falsy) field
OssFileType_misc == 1
OssFileType_video == 3
OssSubCategory_misc == 1
OssSubCategory_monitorVideo == 2

\* A string is a sequence of one-character strings; "" is <<>>.
Lower(ch) ==
  CASE ch = "M" -> "m"
    [] ch = "P" -> "p"
    [] ch = "Z" -> "z"
    [] OTHER -> ch

toLowerCase(str) == [i \in 1..Len(str) |-> Lower(str[i])]

RECURSIVE DropNonDots(_)
DropNonDots(str) ==
  IF str = <<>> \/ Head(str) = "." THEN str ELSE DropNonDots(Tail(str))

\* name && name.replace(/^[^.]+/, ''): file.tar.zip => .tar.zip
getExt(name) == IF name = <<>> THEN name ELSE DropNonDots(name)

\* str.replace(/^\./, '')
StripDot(str) == IF str # <<>> /\ Head(str) = "." THEN Tail(str) ELSE str

\* a || b for strings and enum numbers: the empty string and 0 are falsy
OrStr(a, b) == IF a # <<>> THEN a ELSE b
OrNum(a, b) == IF a # 0 THEN a ELSE b

\* defaultOptions merged with the constructor's options
defaultOptions ==
  [fileType |-> OssFileType_misc, subCategory |-> OssSubCategory_misc,
   fileExtension |-> <<>>, maxTryCount |-> 3, expireTime |-> 86400000]

\* File objects the caller may hand to upload()
FileA == [name |-> <<"a", ".", "M", "P">>, size |-> 10, type |-> "video", lastModified |-> 1]
FileB == [name |-> <<"b">>, size |-> 20, type |-> "", lastModified |-> 1]
Files == {FileA}

\* OssUploadParam values the caller may pass: all unset, or a non-default
\* fileType, or an explicit extension
NoParam == [fileType |-> 0, subCategory |-> 0, fileExtension |-> <<>>]
Params == {NoParam, [NoParam EXCEPT !.fileType = OssFileType_video]}

\* (an item that leaves out the file's modification time)
getOssItem_noLastModified(file, param) ==
  [fileType |-> param.fileType, subCategory |-> param.subCategory,
   fileExtension |-> param.fileExtension,
   name |-> file.name, size |-> file.size, type |-> file.type,
   lastModified |-> 0]

getOssItem(file, param) ==
  [fileType |-> param.fileType, subCategory |-> param.subCategory,
   fileExtension |-> param.fileExtension,
   name |-> file.name, size |-> file.size, type |-> file.type,
   lastModified |-> file.lastModified]

\* md5(JSON.stringify(value)): the digest is taken as collision-free, so it
\* is represented by the serialized value it digests
getHash(value) == [md5 |-> value]

\* JSON.stringify of a track: a File object serializes to {}, so the file
\* reference inside the checkpoint is lost
EmptyObject == [empty |-> TRUE]
stringify(track) ==
  [json |-> "object",
   v |-> IF track.checkpoint = Null THEN track
         ELSE [track EXCEPT !.checkpoint.file = EmptyObject]]
MalformedJson == [json |-> "malformed", v |-> Null]
\* the empty string, and the JSON text null
EmptyJson == [json |-> "empty", v |-> Null]
NullJson == [json |-> "object", v |-> Null]

tryParseJson(json, defaultValue) ==
  IF json = Null THEN defaultValue
  ELSE IF json.json = "object" THEN json.v
  ELSE defaultValue

\* {...item, fileName, percent, checkpoint, lastTime, param}; the token field
\* is absent (undefined) until a token is obtained
newTrack(item, hash, param, time) ==
  [fileType |-> item.fileType, subCategory |-> item.subCategory,
   fileExtension |-> item.fileExtension,
   name |-> item.name, size |-> item.size, type |-> item.type,
   lastModified |-> item.lastModified,
   fileName |-> [rand |-> param.fileExtension],
   percent |-> 0,
   checkpoint |-> Null,
   lastTime |-> time,
   param |-> param,
   token |-> Undefined]

storageKeyPrefix == "@ossuploadtrack"
Key(hash) == [prefix |-> storageKeyPrefix, id |-> hash]
startsWith(key, prefix) == key.prefix = prefix

getItem(ls, key) == IF key \in DOMAIN ls THEN ls[key] ELSE Null
setItem(ls, key, json) ==
  [k \in DOMAIN ls \cup {key} |-> IF k = key THEN json ELSE ls[k]]
removeItem(ls, key) == [k \in DOMAIN ls \ {key} |-> ls[k]]

Expired(ls, key, expireTime, time) ==
  /\ startsWith(key, storageKeyPrefix)
  /\ LET item == tryParseJson(getItem(ls, key), Null)
     IN  /\ item # Null
         \* a missing lastTime is undefined, and undefined > 0 is false
         /\ "lastTime" \in DOMAIN item
         /\ item.lastTime > 0
         /\ time - item.lastTime > expireTime

\* (a sweep that also removes the entries exactly expireTime old)
cleanTracks_inclusive(ls, expireTime, time) ==
  [k \in {key \in DOMAIN ls :
            ~(/\ startsWith(key, storageKeyPrefix)
              /\ LET item == tryParseJson(getItem(ls, key), Null)
                 IN  /\ item # Null
                     /\ "lastTime" \in DOMAIN item
                     /\ item.lastTime > 0
                     /\ time - item.lastTime >= expireTime)} |-> ls[k]]

\* (a sweep that removes nothing)
cleanTracks_keepsAll(ls, expireTime, time) == ls

cleanTracks(ls, expireTime, time) ==
  [k \in {key \in DOMAIN ls : ~Expired(ls, key, expireTime, time)} |-> ls[k]]

saveTrack(ls, track, hash) == setItem(ls, Key(hash), stringify(track))
getTrack(ls, hash) == tryParseJson(getItem(ls, Key(hash)), Null)
delTrack(ls, hash) == removeItem(ls, Key(hash))

\* ------------------------------------------------- interval (lib/timer.ts)
\* the value Infinity of the iterations setting, which no iteration number
\* ever equals
Infinity == 0 - 1

\* const defaults = { iterations: Infinity, stopOnError: true }
defaults == [iterations |-> Infinity, stopOnError |-> TRUE]

\* Object.assign(target, source)
assign(target, source) ==
  [k \in DOMAIN target \cup DOMAIN source |->
     IF k \in DOMAIN source THEN source[k] ELSE target[k]]

\* validateArgs for a function func, a non-negative integer intervalLength
\* and an options object with allowed keys only: it throws unless iterations,
\* if passed, is Infinity or an integer greater than 0
validateArgs(opts) ==
  "iterations" \in DOMAIN opts =>
    (opts.iterations = Infinity \/ opts.iterations >= 1)

\* no interval(...) call has been made
NoInterval ==
  [state |-> "idle", settings |-> defaults, currentIteration |-> 0,
   stopRequested |-> FALSE, root |-> "none", err |-> "none",
   calls |-> <<>>, results |-> <<>>]

\* callFunction(currentIteration) up to its setTimeout: a new stopRequested
\* flag, and the timer armed
callFunction(t, currentIteration) ==
  [t EXCEPT !.state = "setTimeout",
            !.currentIteration = currentIteration,
            !.stopRequested = FALSE]

\* (a callNext that ignores the stop request)
callNext_ignoresStop(t) ==
  IF t.currentIteration = t.settings.iterations
  THEN [t EXCEPT !.state = "settled", !.root = "resolved"]
  ELSE callFunction(t, t.currentIteration + 1)

\* callNext: resolve the root promise at the last iteration or after a stop
\* request, else call the next iteration
callNext(t) ==
  IF t.currentIteration = t.settings.iterations \/ t.stopRequested
  THEN [t EXCEPT !.state = "settled", !.root = "resolved"]
  ELSE callFunction(t, t.currentIteration + 1)

\* interval(func, intervalLength, options) up to its first setTimeout
interval(opts) ==
  IF ~validateArgs(opts)
  THEN [NoInterval EXCEPT !.state = "thrown"]
  ELSE callFunction([NoInterval EXCEPT !.settings = assign(defaults, opts),
                                       !.root = "pending"], 1)

\* the setTimeout callback: func(currentIteration, stop) is called; a return
\* value that is not a promise rejects the root promise
onTimeout(t, promise) ==
  LET t1 == [t EXCEPT !.calls = Append(@, t.currentIteration)]
  IN  IF ~promise
      THEN [t1 EXCEPT !.state = "settled", !.root = "rejected",
                      !.err = "notPromise"]
      ELSE [t1 EXCEPT !.state = "func"]

\* returnVal.then(callNext)
onResolved(t) ==
  callNext([t EXCEPT !.results = Append(@,
              [i |-> t.currentIteration, stop |-> t.stopRequested,
               result |-> "resolved"])])

\* .catch(err => ...): callNext unless stopOnError, else reject the root
onRejected(t) ==
  LET t1 == [t EXCEPT !.results = Append(@,
               [i |-> t.currentIteration, stop |-> t.stopRequested,
                result |-> "rejected"])]
  IN  IF ~t1.settings.stopOnError
      THEN callNext(t1)
      ELSE [t1 EXCEPT !.state = "settled", !.root = "rejected",
                      !.err = "promise"]

\* ------------------------------------------------------------------- state
VARIABLES
  insts,          \* the OssUploader instances that exist
  options,        \* this.options of each instance
  client,         \* this.client: the attempt whose OSS client was created last
  file,           \* this.file
  hash,           \* this.hash
  isPausedInner,  \* this.isPausedInner
  hasBegin,       \* this.hasBegin
  localStorage,   \* the browser's localStorage: key -> JSON text
  chains,         \* one record per upload() invocation: its uploadWork intent
                  \* and the point where its asynchronous continuation waits
  log,            \* what was emitted to observers and which collaborators
                  \* were called, in order: by the latest step, or (when
                  \* trace is set) since the start
  trace,          \* whether log keeps the whole history
  busy,           \* per instance: the caller has an upload() it has not seen end
  ctl,            \* per instance: pause(), resume() or stop() has been called
  now,            \* Date.now()
  iv              \* the interval(...) call of lib/timer.ts: its settings, its
                  \* closure variables, its root promise and what it has called

vars == <<insts, options, client, file, hash, isPausedInner, hasBegin,
          localStorage, chains, log, trace, busy, ctl, now, iv>>

\* The mutable part of the state, as the record the operations transform.
\* an upload() invocation whose continuation is still pending
Live(ch) == ch.pc \in {"useCache", "token", "granted", "transfer", "timer"}

\* An invocation that has returned for good is kept as it ended for one state
\* and is then forgotten: nothing refers to its intent any more.
Returned(u) == [u |-> u, pc |-> "returned"]
Forget(chs) ==
  [c \in DOMAIN chs |-> IF Live(chs[c]) THEN chs[c] ELSE Returned(chs[c].u)]

\* Unless the whole history is kept, every step starts with an empty log.
Cur ==
  [client |-> client, file |-> file, hash |-> hash,
   isPausedInner |-> isPausedInner, hasBegin |-> hasBegin,
   localStorage |-> localStorage, chains |-> Forget(chains),
   log |-> IF trace THEN log ELSE <<>>,
   busy |-> busy]

Becomes(s) ==
  /\ client' = s.client
  /\ file' = s.file
  /\ hash' = s.hash
  /\ isPausedInner' = s.isPausedInner
  /\ hasBegin' = s.hasBegin
  /\ localStorage' = s.localStorage
  /\ chains' = s.chains
  /\ log' = s.log
  /\ busy' = s.busy

\* EventClass.emit: the observers see the event; done and end tell the caller
\* that its upload() is over
\* (c is the upload() invocation whose code emits, 0 for a control operation)
emit(s, u, c, kind, arg) ==
  [s EXCEPT !.log = Append(@, [kind |-> kind, u |-> u, c |-> c, arg |-> arg]),
            !.busy[u] = IF kind \in {"done", "end"} THEN FALSE ELSE @]

\* a call to a collaborator (decision function, token provider, transfer primitive)
call(s, u, c, kind, arg) ==
  [s EXCEPT !.log = Append(@, [kind |-> kind, u |-> u, c |-> c, arg |-> arg])]

setIsPaused(s, u, c, value) ==
  IF value # s.isPausedInner[u]
  THEN emit([s EXCEPT !.isPausedInner[u] = value], u, c, "isPausedChanged",
            [value |-> value])
  ELSE s

\* client.cancel(): the transfer this client has in flight, if any, will
\* reject with the cancel error
cancel(s, u, cl) ==
  LET s1 == call(s, u, cl.c, "cancel", [tryCount |-> cl.t])
      ch == s.chains[cl.c]
  IN  IF Live(ch) /\ ch.pc = "transfer" /\ ch.tryCount = cl.t
      THEN [s1 EXCEPT !.chains[cl.c].cancelled = TRUE]
      ELSE s1

pause(s, u) ==
  IF s.client[u] # Null /\ ~s.isPausedInner[u]
  THEN setIsPaused(cancel(s, u, s.client[u]), u, 0, TRUE)
  ELSE s

clean(s, u) ==
  IF s.hash[u] # Null
  THEN [s EXCEPT !.localStorage = delTrack(@, s.hash[u]),
                 !.hash[u] = Null,
                 !.file[u] = Null]
  ELSE s

end(s, u, c) ==
  IF s.hasBegin[u]
  THEN emit([s EXCEPT !.hasBegin[u] = FALSE], u, c, "end", <<>>)
  ELSE s

stop(s, u) == clean(end(pause(s, u), u, 0), u)
\* ----------------------------------------------------------- uploadWork
\* const client = this.client = new OSS(token); emit prepare; the transfer
\* primitive is called with the track's file name and saved checkpoint
startTransfer(s, c, token) ==
  LET ch == s.chains[c]
      u  == ch.u
      s1 == emit([s EXCEPT !.client[u] = [c |-> c, t |-> ch.tryCount]],
                 u, c, "prepare", <<>>)
      s2 == call(s1, u, c, "multipartUpload",
                 [fileName |-> ch.track.fileName, file |-> ch.file,
                  checkpoint |-> ch.track.checkpoint, token |-> token])
  IN  [s2 EXCEPT !.chains[c].pc = "transfer",
                 !.chains[c].cancelled = FALSE,
                 !.chains[c].xfer = IF ch.track.checkpoint = Null THEN 0
                                    ELSE ch.track.checkpoint.done]

\* (an uploadWork that requests a token whether or not one is cached)
uploadWork_alwaysToken(s, c) ==
  LET ch == s.chains[c]
      u  == ch.u
      s0 == call(s, u, c, "uploadWork",
                 [tryCount |-> ch.tryCount, hash |-> ch.hash,
                  track |-> ch.track, resume |-> ch.resume])
      s1 == IF ch.tryCount = 0
            THEN LET b == setIsPaused(emit(s0, u, c, "begin", <<>>), u, c, FALSE)
                 IN  [b EXCEPT !.hasBegin[u] = TRUE,
                               !.file[u] = ch.file,
                               !.hash[u] = ch.hash]
            ELSE s0
      s2 == emit(s1, u, c, "beforeGetToken", <<>>)
      s3 == call(s2, u, c, "getToken", [param |-> ch.track.param])
  IN  [s3 EXCEPT !.chains[c].pc = "token"]

\* uploadWork from its entry to its first await (the log notes the entry)
uploadWork(s, c) ==
  LET ch == s.chains[c]
      u  == ch.u
      s0 == call(s, u, c, "uploadWork",
                 [tryCount |-> ch.tryCount, hash |-> ch.hash,
                  track |-> ch.track, resume |-> ch.resume])
      s1 == IF ch.tryCount = 0
            THEN LET b == setIsPaused(emit(s0, u, c, "begin", <<>>), u, c, FALSE)
                 IN  [b EXCEPT !.hasBegin[u] = TRUE,
                               !.file[u] = ch.file,
                               !.hash[u] = ch.hash]
            ELSE s0
  IN  IF ch.resume /\ ch.track.token # Undefined
      THEN startTransfer(s1, c, ch.track.token)
      ELSE LET s2 == emit(s1, u, c, "beforeGetToken", <<>>)
               s3 == call(s2, u, c, "getToken", [param |-> ch.track.param])
           IN  [s3 EXCEPT !.chains[c].pc = "token"]

\* getToken resolved with ret, inside the inner async function: the track
\* takes the server's file name and the token and is saved, afterGetToken is
\* emitted and the function returns ret; uploadWork, which awaits that
\* function, goes on in a later turn
afterGetToken(s, c, ret) ==
  LET ch == s.chains[c]
      tr == [ch.track EXCEPT !.fileName = ret.fileName, !.token = ret]
      s1 == [s EXCEPT !.chains[c].track = tr,
                      !.localStorage = saveTrack(@, tr, ch.hash)]
      s2 == emit(s1, ch.u, c, "afterGetToken", [token |-> ret])
  IN  [s2 EXCEPT !.chains[c].pc = "granted"]

\* uploadWork goes on after its await of the inner function, with the token
\* that function returned: the client is created and the transfer starts
afterTokenAwait(s, c) ==
  startTransfer(s, c, s.chains[c].track.token)

\* p * 100 for the fraction p = k / Parts
Percent(k) == (k * 100) \div Parts

\* (a progress callback that updates the track object but does not save it)
onProgress_noSave(s, c, k, checkpoint, time) ==
  LET ch == s.chains[c]
      s1 == emit(s, ch.u, c, "progress",
                 [percent |-> Percent(k), checkpoint |-> checkpoint])
      tr == [ch.track EXCEPT !.percent = Percent(k),
                             !.checkpoint = checkpoint,
                             !.lastTime = time]
  IN  [s1 EXCEPT !.chains[c].track = tr,
                 !.chains[c].xfer = k]

\* the progress callback of multipartUpload
onProgress(s, c, k, checkpoint, time) ==
  LET ch == s.chains[c]
      s1 == emit(s, ch.u, c, "progress",
                 [percent |-> Percent(k), checkpoint |-> checkpoint])
      tr == [ch.track EXCEPT !.percent = Percent(k),
                             !.checkpoint = checkpoint,
                             !.lastTime = time]
  IN  [s1 EXCEPT !.chains[c].track = tr,
                 !.chains[c].xfer = k,
                 !.localStorage = saveTrack(@, tr, ch.hash)]

\* multipartUpload resolved: done is emitted, then this.clean()
onDone(s, c) ==
  LET ch == s.chains[c]
      s1 == emit(s, ch.u, c, "done", [fileName |-> ch.track.fileName])
  IN  [clean(s1, ch.u) EXCEPT !.chains[c].pc = "done"]

\* (a retry test that is off by one)
onCatch_offByOne(s, c, ex, canceled, maxTryCount) ==
  LET ch == s.chains[c]
      u  == ch.u
      nextTryCount == ch.tryCount + 1
  IN  IF ex = "cancel"
      THEN [s EXCEPT !.chains[c].pc = "cancelled"]
      ELSE LET s1 == emit(s, u, c, "fail", [exception |-> ex])
           IN  IF nextTryCount < maxTryCount
               THEN LET s2 == emit(s1, u, c, "beforeRetry",
                                   [tryCount |-> nextTryCount,
                                    maxTryCount |-> maxTryCount,
                                    canceled |-> canceled])
                    IN  IF canceled
                        THEN [end(s2, u, c) EXCEPT !.chains[c].pc = "vetoed"]
                        ELSE [s2 EXCEPT !.chains[c].pc = "timer"]
               ELSE [end(s1, u, c) EXCEPT !.chains[c].pc = "failed"]

\* (a catch block that does not recognise the cancel error)
onCatch_cancelAsFailure(s, c, ex, canceled, maxTryCount) ==
  LET ch == s.chains[c]
      u  == ch.u
      nextTryCount == ch.tryCount + 1
      s1 == emit(s, u, c, "fail", [exception |-> ex])
  IN  IF nextTryCount <= maxTryCount
      THEN LET s2 == emit(s1, u, c, "beforeRetry",
                          [tryCount |-> nextTryCount,
                           maxTryCount |-> maxTryCount,
                           canceled |-> canceled])
           IN  IF canceled
               THEN [end(s2, u, c) EXCEPT !.chains[c].pc = "vetoed"]
               ELSE [s2 EXCEPT !.chains[c].pc = "timer"]
      ELSE [end(s1, u, c) EXCEPT !.chains[c].pc = "failed"]

\* (a catch block that cleans up when it gives up)
onCatch_cleanOnGiveUp(s, c, ex, canceled, maxTryCount) ==
  LET ch == s.chains[c]
      u  == ch.u
      nextTryCount == ch.tryCount + 1
  IN  IF ex = "cancel"
      THEN [s EXCEPT !.chains[c].pc = "cancelled"]
      ELSE LET s1 == emit(s, u, c, "fail", [exception |-> ex])
           IN  IF nextTryCount <= maxTryCount
               THEN LET s2 == emit(s1, u, c, "beforeRetry",
                                   [tryCount |-> nextTryCount,
                                    maxTryCount |-> maxTryCount,
                                    canceled |-> canceled])
                    IN  IF canceled
                        THEN [end(s2, u, c) EXCEPT !.chains[c].pc = "vetoed"]
                        ELSE [s2 EXCEPT !.chains[c].pc = "timer"]
               ELSE [clean(end(s1, u, c), u) EXCEPT !.chains[c].pc = "failed"]

\* the catch block: ex is "cancel" for {status: 0, name: 'cancel'}, else an
\* ordinary error; canceled is what the beforeRetry observer leaves in the event
onCatch(s, c, ex, canceled, maxTryCount) ==
  LET ch == s.chains[c]
      u  == ch.u
      nextTryCount == ch.tryCount + 1
  IN  IF ex = "cancel"
      THEN [s EXCEPT !.chains[c].pc = "cancelled"]
      ELSE LET s1 == emit(s, u, c, "fail", [exception |-> ex])
           IN  IF nextTryCount <= maxTryCount
               THEN LET s2 == emit(s1, u, c, "beforeRetry",
                                   [tryCount |-> nextTryCount,
                                    maxTryCount |-> maxTryCount,
                                    canceled |-> canceled])
                    IN  IF canceled
                        THEN [end(s2, u, c) EXCEPT !.chains[c].pc = "vetoed"]
                        ELSE [s2 EXCEPT !.chains[c].pc = "timer"]
               ELSE [end(s1, u, c) EXCEPT !.chains[c].pc = "failed"]

\* (a retry that keeps the intent's resume flag)
onRetryTimer_keepsResume(s, c) ==
  uploadWork([s EXCEPT !.chains[c].tryCount = @ + 1], c)

\* the setTimeout callback: uploadWork with tryCount + 1 and resume false
onRetryTimer(s, c) ==
  uploadWork([s EXCEPT !.chains[c].tryCount = @ + 1,
                       !.chains[c].resume = FALSE], c)

\* --------------------------------------------------------------- upload
\* (an upload() that treats the decision 'cancel' like 'no')
afterUseCache_cancelRestarts(s0, c, cacheResult) ==
  LET ch == s0.chains[c]
      s  == [s0 EXCEPT !.chains[c].cacheResult = cacheResult]
  IN  IF cacheResult = "yes"
      THEN IF ch.cached.checkpoint = Null
           THEN LET s1 == call(s, ch.u, c, "throw", [error |-> "TypeError"])
                IN  [s1 EXCEPT !.chains[c].pc = "thrown", !.busy[ch.u] = FALSE]
           ELSE uploadWork(
                  [s EXCEPT !.chains[c].track =
                               [ch.cached EXCEPT !.checkpoint.file = ch.file],
                            !.chains[c].resume = TRUE], c)
      ELSE uploadWork([s EXCEPT !.chains[c].resume = FALSE], c)

\* upload() after the cache decision is known
afterUseCache(s0, c, cacheResult) ==
  LET ch == s0.chains[c]
      s  == [s0 EXCEPT !.chains[c].cacheResult = cacheResult]
  IN  IF cacheResult = "cancel"
      THEN [s EXCEPT !.chains[c].pc = "return", !.busy[ch.u] = FALSE]
      ELSE IF cacheResult = "yes"
      THEN IF ch.cached.checkpoint = Null
           \* cachedTrack.checkpoint.file = file on a null checkpoint
           THEN LET s1 == call(s, ch.u, c, "throw", [error |-> "TypeError"])
                IN  [s1 EXCEPT !.chains[c].pc = "thrown", !.busy[ch.u] = FALSE]
           ELSE uploadWork(
                  [s EXCEPT !.chains[c].track =
                               [ch.cached EXCEPT !.checkpoint.file = ch.file],
                            !.chains[c].resume = TRUE], c)
      ELSE uploadWork([s EXCEPT !.chains[c].resume = FALSE], c)

\* the extension: the parameter, else the option, else the file name's
EffectiveExt(opt, f, fileExtension) ==
  toLowerCase(StripDot(
    OrStr(OrStr(OrStr(fileExtension, opt.fileExtension), getExt(f.name)), <<>>)))

EffectiveParam(opt, f, p) ==
  [fileType |-> OrNum(p.fileType, opt.fileType),
   subCategory |-> OrNum(p.subCategory, opt.subCategory),
   fileExtension |-> EffectiveExt(opt, f, p.fileExtension)]

NewChain(u, f, p, item, h, param, track, cached, res) ==
  [u |-> u, file |-> f, arg |-> p, item |-> item, hash |-> h, param |-> param,
   track |-> track, cached |-> cached, tryCount |-> 0, resume |-> res,
   resumeParam |-> res, asked |-> FALSE, cacheResult |-> "",
   pc |-> "upload", xfer |-> 0, cancelled |-> FALSE, stopped |-> FALSE]

\* upload(file, {fileType, subCategory, fileExtension, resume}) from its entry
\* to its first await (or to uploadWork's)
upload(s, u, opt, f, p, resume, time) ==
  LET c  == Len(s.chains) + 1
      ls == cleanTracks(s.localStorage, opt.expireTime, time)
      s0 == [s EXCEPT !.localStorage = ls, !.busy[u] = TRUE]
  IN  IF f = Null
      \* file.name on a null file
      THEN LET s1 == [s0 EXCEPT !.chains = Append(@,
                        [NewChain(u, f, p, Null, Null, Null, Null, Null, resume)
                           EXCEPT !.pc = "thrown"]),
                        !.busy[u] = FALSE]
           IN  call(s1, u, c, "throw", [error |-> "TypeError"])
      ELSE
      LET param  == EffectiveParam(opt, f, p)
          item   == getOssItem(f, param)
          h      == getHash(item)
          cached == getTrack(ls, h)
          track  == newTrack(item, h, param, time)
          s1     == [s0 EXCEPT !.chains = Append(@,
                       NewChain(u, f, p, item, h, param, track, cached, resume))]
      IN  IF cached # Null
          THEN IF resume
               THEN afterUseCache(s1, c, "yes")
               ELSE LET s2 == call(s1, u, c, "useCache", [track |-> cached])
                    IN  [s2 EXCEPT !.chains[c].pc = "useCache",
                                   !.chains[c].asked = TRUE]
          ELSE uploadWork([s1 EXCEPT !.chains[c].resume = FALSE], c)

resume(s, u, opt, time) ==
  IF s.isPausedInner[u]
  THEN upload(s, u, opt, s.file[u], NoParam, TRUE, time)
  ELSE s
\* ----------------------------------------------------------------- actions
Uploaders == {1, 2}

InitWith(keepTrace) ==
  /\ insts = {1}
  /\ trace = keepTrace
  /\ options \in [insts -> {[defaultOptions EXCEPT !.maxTryCount = m,
                                                   !.expireTime = ExpireTicks]
                            : m \in 0..MaxRetry}]
  /\ client = [u \in insts |-> Null]
  /\ file = [u \in insts |-> Null]
  /\ hash = [u \in insts |-> Null]
  /\ isPausedInner = [u \in insts |-> FALSE]
  /\ hasBegin = [u \in insts |-> FALSE]
  /\ localStorage = <<>>
  /\ chains = <<>>
  /\ log = <<>>
  /\ busy = [u \in insts |-> FALSE]
  /\ ctl = [u \in insts |-> FALSE]
  /\ now = 1
  /\ iv = NoInterval

Init == InitWith(FALSE)

Frame == UNCHANGED <<insts, options, trace, now, ctl, iv>>
Control(u) ==
  /\ ctl' = [ctl EXCEPT ![u] = TRUE]
  /\ UNCHANGED <<insts, options, trace, now, iv>>

\* the caller invokes upload(file, params); it does so only when it has no
\* upload in progress on this instance
Upload(u, f, p) ==
  /\ ~busy[u]
  /\ Len(chains) < MaxChains
  /\ Becomes(upload(Cur, u, options[u], f, p, FALSE, now))
  /\ Frame

\* pause(), where its condition holds; elsewhere the call changes nothing
Pause(u) ==
  /\ client[u] # Null /\ ~isPausedInner[u]
  /\ Becomes(pause(Cur, u))
  /\ Control(u)

\* resume(), where its condition holds; elsewhere the call changes nothing
Resume(u) ==
  /\ isPausedInner[u]
  /\ Len(chains) < MaxChains
  /\ Becomes(resume(Cur, u, options[u], now))
  /\ Control(u)

\* stop(), where at least one of pause(), end(), clean() has something to do
\* (each pending invocation of the instance is marked as stopped)
Stop(u) ==
  /\ \/ client[u] # Null /\ ~isPausedInner[u]
     \/ hasBegin[u]
     \/ hash[u] # Null
  /\ LET s == stop(Cur, u)
     IN  Becomes([s EXCEPT !.chains =
           [c \in DOMAIN s.chains |->
              IF s.chains[c].u = u /\ Live(s.chains[c])
              THEN [s.chains[c] EXCEPT !.stopped = TRUE]
              ELSE s.chains[c]]])
  /\ Control(u)

\* the decision function resolves
UseCacheResolves(c, r) ==
  /\ chains[c].pc = "useCache"
  /\ Becomes(afterUseCache(Cur, c, r))
  /\ Frame

\* The token the provider issues to an attempt: every request gets its own
\* credentials and its own remote file name.
FreshToken(c, tryCount) ==
  [id |-> <<c, tryCount>>, fileName |-> [srv |-> <<c, tryCount>>]]

\* the token provider resolves
GetTokenResolves(c) ==
  /\ chains[c].pc = "token"
  /\ Becomes(afterGetToken(Cur, c, FreshToken(c, chains[c].tryCount)))
  /\ Frame

\* uploadWork's await of the token returns
TokenAwaitReturns(c) ==
  /\ chains[c].pc = "granted"
  /\ Becomes(afterTokenAwait(Cur, c))
  /\ Frame

\* the token provider rejects
GetTokenRejects(c, canceled) ==
  /\ chains[c].pc = "token"
  /\ canceled => chains[c].tryCount + 1 <= options[chains[c].u].maxTryCount
  /\ Becomes(onCatch(Cur, c, "error", canceled, options[chains[c].u].maxTryCount))
  /\ Frame

\* the transfer primitive reports the next part done
Progress(c) ==
  /\ chains[c].pc = "transfer"
  /\ ~chains[c].cancelled
  /\ chains[c].xfer < Parts
  /\ Becomes(onProgress(Cur, c, chains[c].xfer + 1,
                        [done |-> chains[c].xfer + 1, file |-> chains[c].file], now))
  /\ Frame

\* the transfer primitive resolves once every part is done
TransferResolves(c) ==
  /\ chains[c].pc = "transfer"
  /\ ~chains[c].cancelled
  /\ chains[c].xfer = Parts
  /\ Becomes(onDone(Cur, c))
  /\ Frame

\* the transfer primitive rejects with an ordinary error
TransferRejects(c, canceled) ==
  /\ chains[c].pc = "transfer"
  /\ ~chains[c].cancelled
  /\ canceled => chains[c].tryCount + 1 <= options[chains[c].u].maxTryCount
  /\ Becomes(onCatch(Cur, c, "error", canceled, options[chains[c].u].maxTryCount))
  /\ Frame

\* the transfer primitive rejects a cancelled transfer with the cancel error
TransferCancelled(c) ==
  /\ chains[c].pc = "transfer"
  /\ chains[c].cancelled
  /\ Becomes(onCatch(Cur, c, "cancel", FALSE, options[chains[c].u].maxTryCount))
  /\ Frame

\* the retry timer fires
RetryTimer(c) ==
  /\ chains[c].pc = "timer"
  /\ Becomes(onRetryTimer(Cur, c))
  /\ Frame

\* time passes
Tick ==
  /\ now < MaxTime
  /\ now' = now + 1
  /\ UNCHANGED <<insts, options, client, file, hash, isPausedInner, hasBegin,
                 localStorage, chains, log, trace, busy, ctl, iv>>

\* The uploader with a caller that uploads, pauses, resumes and stops.
Next ==
  \/ \E u \in insts, f \in Files, p \in Params : Upload(u, f, p)
  \/ \E u \in insts : Pause(u)
  \/ \E u \in insts : Resume(u)
  \/ \E u \in insts : Stop(u)
  \/ \E c \in DOMAIN chains, r \in {"yes", "no", "cancel"} : UseCacheResolves(c, r)
  \/ \E c \in DOMAIN chains : GetTokenResolves(c)
  \/ \E c \in DOMAIN chains : TokenAwaitReturns(c)
  \/ \E c \in DOMAIN chains, canceled \in BOOLEAN : GetTokenRejects(c, canceled)
  \/ \E c \in DOMAIN chains : Progress(c)
  \/ \E c \in DOMAIN chains : TransferResolves(c)
  \/ \E c \in DOMAIN chains, canceled \in BOOLEAN : TransferRejects(c, canceled)
  \/ \E c \in DOMAIN chains : TransferCancelled(c)
  \/ \E c \in DOMAIN chains : RetryTimer(c)

Spec == Init /\ [][Next]_vars

\* The uploader with a caller that only uploads (it never calls pause(),
\* resume() or stop()); the log keeps the whole history.
InitRun == InitWith(TRUE)

NextRun ==
  \/ \E u \in insts, f \in Files, p \in Params : Upload(u, f, p)
  \/ \E c \in DOMAIN chains, r \in {"yes", "no", "cancel"} : UseCacheResolves(c, r)
  \/ \E c \in DOMAIN chains : GetTokenResolves(c)
  \/ \E c \in DOMAIN chains : TokenAwaitReturns(c)
  \/ \E c \in DOMAIN chains, canceled \in BOOLEAN : GetTokenRejects(c, canceled)
  \/ \E c \in DOMAIN chains : Progress(c)
  \/ \E c \in DOMAIN chains : TransferResolves(c)
  \/ \E c \in DOMAIN chains, canceled \in BOOLEAN : TransferRejects(c, canceled)
  \/ \E c \in DOMAIN chains : RetryTimer(c)

SpecRun == InitRun /\ [][NextRun]_vars

\* a continuation of upload() invocation c runs: a collaborator answers or
\* the retry timer fires
ChainStep(c) ==
  /\ c \in DOMAIN chains
  /\ \/ \E r \in {"yes", "no", "cancel"} : UseCacheResolves(c, r)
     \/ GetTokenResolves(c)
     \/ TokenAwaitReturns(c)
     \/ \E canceled \in BOOLEAN : GetTokenRejects(c, canceled)
     \/ Progress(c)
     \/ TransferResolves(c)
     \/ \E canceled \in BOOLEAN : TransferRejects(c, canceled)
     \/ RetryTimer(c)

\* SpecRun where the decision function, the token provider and the transfer
\* primitive eventually answer and the retry timer eventually fires.
SpecRunFair ==
  SpecRun /\ \A c \in 1..MaxChains : WF_vars(ChainStep(c))

\* The uploader of Spec with a clock that advances.
NextClock == Next \/ Tick

SpecClock == Init /\ [][NextClock]_vars

\* The uploader of Spec with a caller that invokes upload() only when no
\* earlier invocation on the instance is still pending (whatever events it
\* has seen).
UploadIdle(u, f, p) ==
  /\ \A c \in DOMAIN chains : chains[c].u = u => ~Live(chains[c])
  /\ Upload(u, f, p)

NextIdle ==
  \/ \E u \in insts, f \in Files, p \in Params : UploadIdle(u, f, p)
  \/ \E u \in insts : Pause(u)
  \/ \E u \in insts : Resume(u)
  \/ \E u \in insts : Stop(u)
  \/ \E c \in DOMAIN chains, r \in {"yes", "no", "cancel"} : UseCacheResolves(c, r)
  \/ \E c \in DOMAIN chains : GetTokenResolves(c)
  \/ \E c \in DOMAIN chains : TokenAwaitReturns(c)
  \/ \E c \in DOMAIN chains, canceled \in BOOLEAN : GetTokenRejects(c, canceled)
  \/ \E c \in DOMAIN chains : Progress(c)
  \/ \E c \in DOMAIN chains : TransferResolves(c)
  \/ \E c \in DOMAIN chains, canceled \in BOOLEAN : TransferRejects(c, canceled)
  \/ \E c \in DOMAIN chains : TransferCancelled(c)
  \/ \E c \in DOMAIN chains : RetryTimer(c)

SpecIdle == Init /\ [][NextIdle]_vars

\* Two instances with their own option defaults, each uploading one of
\* several files with one of several params, up to the start of the transfer: the
\* calls whose Track Store keys are compared.
FileC == [FileA EXCEPT !.lastModified = 2]
FileD == [FileA EXCEPT !.name = <<"a", ".", "z">>]
KeyFiles == {FileA, FileB, FileC, FileD}
KeyParams ==
  Params \cup {[NoParam EXCEPT !.fileExtension = <<".", "M", "P">>],
               [NoParam EXCEPT !.fileExtension = <<"z">>],
               [NoParam EXCEPT !.subCategory = OssSubCategory_monitorVideo]}
KeyOptions ==
  {[defaultOptions EXCEPT !.maxTryCount = 0, !.expireTime = ExpireTicks,
                          !.fileType = t, !.fileExtension = x]
     : t \in {OssFileType_misc, OssFileType_video}, x \in {<<>>, <<"z">>}}

InitKey ==
  /\ insts = Uploaders
  /\ trace = FALSE
  /\ options \in [insts -> KeyOptions]
  /\ client = [u \in insts |-> Null]
  /\ file = [u \in insts |-> Null]
  /\ hash = [u \in insts |-> Null]
  /\ isPausedInner = [u \in insts |-> FALSE]
  /\ hasBegin = [u \in insts |-> FALSE]
  /\ localStorage = <<>>
  /\ chains = <<>>
  /\ log = <<>>
  /\ busy = [u \in insts |-> FALSE]
  /\ ctl = [u \in insts |-> FALSE]
  /\ now = 1
  /\ iv = NoInterval

NextKey ==
  \/ \E u \in insts, f \in KeyFiles, p \in KeyParams : Upload(u, f, p)
  \/ \E c \in DOMAIN chains : GetTokenResolves(c)
  \/ \E c \in DOMAIN chains : TokenAwaitReturns(c)

SpecKey == InitKey /\ [][NextKey]_vars

\* Two instances sharing the Track Store, each uploading a file of its own
\* (the two fingerprints differ), with a caller that uploads and stops, and a
\* clock that advances.
OwnFile(u) == IF u = 1 THEN FileA ELSE FileB

InitTwo ==
  /\ insts = Uploaders
  /\ trace = FALSE
  /\ \E m \in 0..MaxRetry :
       options = [u \in insts |-> [defaultOptions EXCEPT !.maxTryCount = m,
                                                         !.expireTime = ExpireTicks]]
  /\ client = [u \in insts |-> Null]
  /\ file = [u \in insts |-> Null]
  /\ hash = [u \in insts |-> Null]
  /\ isPausedInner = [u \in insts |-> FALSE]
  /\ hasBegin = [u \in insts |-> FALSE]
  /\ localStorage = <<>>
  /\ chains = <<>>
  /\ log = <<>>
  /\ busy = [u \in insts |-> FALSE]
  /\ ctl = [u \in insts |-> FALSE]
  /\ now = 1
  /\ iv = NoInterval

NextTwo ==
  \/ \E u \in insts : Upload(u, OwnFile(u), NoParam)
  \/ \E u \in insts : Stop(u)
  \/ \E c \in DOMAIN chains, r \in {"yes", "no", "cancel"} : UseCacheResolves(c, r)
  \/ \E c \in DOMAIN chains : GetTokenResolves(c)
  \/ \E c \in DOMAIN chains : TokenAwaitReturns(c)
  \/ \E c \in DOMAIN chains, canceled \in BOOLEAN : GetTokenRejects(c, canceled)
  \/ \E c \in DOMAIN chains : Progress(c)
  \/ \E c \in DOMAIN chains : TransferResolves(c)
  \/ \E c \in DOMAIN chains, canceled \in BOOLEAN : TransferRejects(c, canceled)
  \/ \E c \in DOMAIN chains : TransferCancelled(c)
  \/ \E c \in DOMAIN chains : RetryTimer(c)
  \/ Tick

SpecTwo == InitTwo /\ [][NextTwo]_vars

\* The expiry sweep on an arbitrary store: entries under the namespace prefix
\* and outside it, holding records with any lastTime (negative, zero, past,
\* present, future) or none, the JSON text null, malformed text or nothing.
SweepKeys ==
  {Key("a"), Key("b"), [prefix |-> "other", id |-> "a"]}
SweepValues ==
  {[json |-> "object", v |-> [percent |-> 0, lastTime |-> t]] : t \in (0 - 1)..(MaxTime + 1)}
    \cup {[json |-> "object", v |-> [percent |-> 0]],
          NullJson, MalformedJson, EmptyJson}
SweepStores ==
  UNION {[K -> SweepValues] : K \in SUBSET SweepKeys}

InitSweep ==
  /\ insts = {1}
  /\ trace = FALSE
  /\ options \in [insts -> {[defaultOptions EXCEPT !.maxTryCount = 0,
                                                   !.expireTime = a]
                            : a \in 0..MaxAge}]
  /\ client = [u \in insts |-> Null]
  /\ file = [u \in insts |-> Null]
  /\ hash = [u \in insts |-> Null]
  /\ isPausedInner = [u \in insts |-> FALSE]
  /\ hasBegin = [u \in insts |-> FALSE]
  /\ localStorage \in SweepStores
  /\ chains = <<>>
  /\ log = <<>>
  /\ busy = [u \in insts |-> FALSE]
  /\ ctl = [u \in insts |-> FALSE]
  /\ now = 1
  /\ iv = NoInterval

\* cleanTracks(expireTime), as upload() calls it first (the log notes the
\* store it was called on)
Sweep(u) ==
  /\ localStorage' = cleanTracks(localStorage, options[u].expireTime, now)
  /\ log' = <<[kind |-> "cleanTracks", u |-> u, c |-> 0,
               arg |-> [store |-> localStorage, time |-> now]]>>
  /\ UNCHANGED <<insts, options, client, file, hash, isPausedInner, hasBegin,
                 chains, trace, busy, ctl, now, iv>>

NextSweep ==
  \/ \E u \in insts : Sweep(u)
  \/ Tick

SpecSweep == InitSweep /\ [][NextSweep]_vars

\* The interval(...) call: the options the caller may pass, the timer
\* firing, func returning a promise or something else, func calling stop()
\* before its promise settles, and the promise resolving or rejecting.
IntervalOptions ==
  {<<>>}
    \cup {[iterations |-> n] : n \in (0..MaxIter) \cup {Infinity}}
    \cup {[stopOnError |-> b] : b \in BOOLEAN}
    \cup {[iterations |-> n, stopOnError |-> b] :
            n \in (0..MaxIter) \cup {Infinity}, b \in BOOLEAN}

Rest ==
  UNCHANGED <<insts, options, client, file, hash, isPausedInner, hasBegin,
              localStorage, chains, log, trace, busy, ctl, now>>

\* the caller calls interval(func, intervalLength, opts)
Interval(opts) ==
  /\ iv.state = "idle"
  /\ iv' = interval(opts)
  /\ Rest

\* the timer fires and func is called
TimeoutFires(promise) ==
  /\ iv.state = "setTimeout"
  /\ iv' = onTimeout(iv, promise)
  /\ Rest

\* func calls stop() before its promise settles
StopCalled ==
  /\ iv.state = "func"
  /\ ~iv.stopRequested
  /\ iv' = [iv EXCEPT !.stopRequested = TRUE]
  /\ Rest

\* another iteration would follow
Continues(t) ==
  ~(t.currentIteration = t.settings.iterations \/ t.stopRequested)

\* func's promise resolves
PromiseResolves ==
  /\ iv.state = "func"
  /\ Continues(iv) => iv.currentIteration < MaxCalls
  /\ iv' = onResolved(iv)
  /\ Rest

\* func's promise rejects
PromiseRejects ==
  /\ iv.state = "func"
  /\ (~iv.settings.stopOnError /\ Continues(iv)) => iv.currentIteration < MaxCalls
  /\ iv' = onRejected(iv)
  /\ Rest

NextInterval ==
  \/ \E opts \in IntervalOptions : Interval(opts)
  \/ \E promise \in BOOLEAN : TimeoutFires(promise)
  \/ StopCalled
  \/ PromiseResolves
  \/ PromiseRejects

SpecInterval == Init /\ [][NextInterval]_vars

\* ------------------------------------------------------------ the claims
\* the log entries of upload() invocation c, in order
EventsOf(c) == SelectSeq(log, LAMBDA e : e.c = c)
KindsOf(c) == [i \in 1..Len(EventsOf(c)) |-> EventsOf(c)[i].kind]
Count(c, kind) == Len(SelectSeq(log, LAMBDA e : e.c = c /\ e.kind = kind))
Vetoed(c) ==
  \E i \in 1..Len(log) :
    log[i].c = c /\ log[i].kind = "beforeRetry" /\ log[i].arg.canceled
Min(a, b) == IF a < b THEN a ELSE b

\* C1 (retry bound): in a chain of a caller that never pauses, resumes or
\* stops, with no attempt succeeding and no beforeRetry vetoed, uploadWork
\* runs with tryCount 0, 1, ... and never more than maxTryCount + 1 times;
\* every attempt that has ended emitted one fail, every fail but the
\* (maxTryCount + 1)-th was followed by a beforeRetry, and after the
\* (maxTryCount + 1)-th fail the chain is over with exactly one end, emitted
\* right after that fail.
C1_RetryBound ==
  \A c \in DOMAIN chains :
    LET max == options[chains[c].u].maxTryCount
        W == SelectSeq(log, LAMBDA e : e.c = c /\ e.kind = "uploadWork")
        F == Count(c, "fail")
        ks == KindsOf(c)
    IN  (Count(c, "done") = 0 /\ ~Vetoed(c)) =>
          /\ Len(W) <= max + 1
          /\ \A i \in 1..Len(W) : W[i].arg.tryCount = i - 1
          /\ F <= Len(W) /\ Len(W) <= F + 1
          /\ Len(W) = F + 1 <=> chains[c].pc \in {"token", "granted", "transfer"}
          /\ Count(c, "beforeRetry") = Min(F, max)
          /\ Count(c, "end") = (IF F = max + 1 THEN 1 ELSE 0)
          /\ F = max + 1 =>
               /\ ~Live(chains[c])
               /\ ks[Len(ks)] = "end" /\ ks[Len(ks) - 1] = "fail"

\* C1 witness: a chain with maxTryCount >= 1 that has failed maxTryCount + 1
\* times and ended
C1_Witness ==
  \E c \in DOMAIN chains :
    /\ options[chains[c].u].maxTryCount >= 1
    /\ Count(c, "fail") = options[chains[c].u].maxTryCount + 1
    /\ Count(c, "uploadWork") = options[chains[c].u].maxTryCount + 1
    /\ Count(c, "end") = 1
    /\ chains[c].pc = "failed"

\* C2 (successful completion sequence), as claimed: once an attempt has
\* emitted done and its chain has returned, an end of that instance follows
\* the done.
C2_DoneThenEnd ==
  \A i \in 1..Len(log) :
    (log[i].kind = "done" /\ ~Live(chains[log[i].c])) =>
      \E j \in (i + 1)..Len(log) : log[j].kind = "end" /\ log[j].u = log[i].u

\* C3 (track removed on success), as claimed: in the state right after an
\* attempt emitted done, the store holds no entry under its fingerprint.
C3_TrackRemovedOnDone ==
  \A c \in DOMAIN chains :
    chains[c].pc = "done" => Key(chains[c].hash) \notin DOMAIN localStorage

\* what a sequence of log entries holds of one kind
Of(entries, kind) == SelectSeq(entries, LAMBDA e : e.kind = kind)
\* the upload() invocations of instance u whose uploadWork is under way
InProgress(u) ==
  {c \in DOMAIN chains :
     chains[c].u = u /\ chains[c].pc \in {"token", "granted", "transfer", "timer"}}

\* C4 (cancellation idempotence), as claimed: in a state where a chain of the
\* instance is in progress, stop() called twice in a row emits exactly one
\* end, sends at most one cancel, and leaves no Track under the chain's
\* fingerprint; in a state where no upload() of the instance is pending,
\* stop() emits no end.
C4_StopTwice ==
  \A u \in insts :
    LET s0 == [Cur EXCEPT !.log = <<>>]
        s1 == stop(s0, u)
        s2 == stop(s1, u)
    IN  /\ InProgress(u) # {} =>
             /\ Len(Of(s2.log, "end")) = 1
             /\ Len(Of(s2.log, "cancel")) <= 1
             /\ \A c \in InProgress(u) :
                  Key(chains[c].hash) \notin DOMAIN s2.localStorage
        /\ (\A c \in DOMAIN chains : chains[c].u = u => ~Live(chains[c])) =>
             Len(Of(s1.log, "end")) = 0

\* C5 (stop() forgets progress permanently), as claimed: a chain that was
\* pending when stop() was called takes no further step: no later step logs
\* an event or a collaborator call of that chain (a cancel is sent by the
\* caller's pause() or stop(), not by the chain), and as long as the caller
\* does not invoke upload() again, no entry appears under its fingerprint.
C5_StoppedChainIsDead ==
  [][\A c \in DOMAIN chains :
       (chains[c].stopped /\ Live(chains[c])) =>
         /\ \A i \in 1..Len(log') :
              log'[i].c = c => log'[i].kind = "cancel"
         /\ (/\ Len(chains') = Len(chains)
             /\ Key(chains[c].hash) \notin DOMAIN localStorage)
            => Key(chains[c].hash) \notin DOMAIN localStorage']_vars

Kinds(entries) == [i \in 1..Len(entries) |-> entries[i].kind]

\* C6 (pause-induced abort is silent): a pause() called with isPaused false
\* while an attempt is transferring sends one cancel and emits
\* isPausedChanged(true), nothing else; the step in which a cancelled transfer
\* rejects with the cancel error emits nothing (no fail, no beforeRetry, no
\* end), leaves the chain with no retry timer, and leaves the Track Store as
\* it was.
C6_PauseSilent ==
  [][/\ \A u \in insts :
          (/\ Pause(u)
           /\ \E c \in DOMAIN chains :
                chains[c].u = u /\ chains[c].pc = "transfer")
          => /\ Kinds(log') = <<"cancel", "isPausedChanged">>
             /\ log'[2].arg.value = TRUE
             /\ isPausedInner'[u]
             /\ localStorage' = localStorage
     /\ \A c \in DOMAIN chains :
          TransferCancelled(c)
          => /\ log' = <<>>
             /\ chains'[c].pc = "cancelled"
             /\ ~Live(chains'[c])
             /\ localStorage' = localStorage
             /\ hasBegin' = hasBegin]_vars

\* C6 witness: a transfer that pause() cancelled has just rejected with the
\* cancel error; the instance is paused, was never stopped, and the Track of
\* the chain is still stored
C6_Witness ==
  \E c \in DOMAIN chains :
    /\ chains[c].pc = "cancelled"
    /\ ~chains[c].stopped
    /\ isPausedInner[chains[c].u]
    /\ hasBegin[chains[c].u]
    /\ log = <<>>
    /\ getTrack(localStorage, chains[c].hash) # Null

\* C7 (resume() continues the paused upload), as claimed: when the instance
\* is paused and the Track stored under the remembered fingerprint has a
\* checkpoint (the pause came after a progress tick), a resume() step starts
\* an attempt with resume = true under that same fingerprint, hands the
\* stored checkpoint and the stored token to the transfer primitive, and
\* requests no token.
C7_ResumeContinues ==
  [][\A u \in insts :
       (/\ Resume(u)
        /\ hash[u] # Null /\ file[u] # Null
        /\ getTrack(localStorage, hash[u]) # Null
        /\ getTrack(localStorage, hash[u]).checkpoint # Null)
       => LET stored == getTrack(localStorage, hash[u])
              W == Of(log', "uploadWork")
              M == Of(log', "multipartUpload")
          IN  /\ Len(W) = 1
              /\ W[1].arg.resume = TRUE
              /\ W[1].arg.hash = hash[u]
              /\ Of(log', "getToken") = <<>>
              /\ Len(M) = 1
              /\ M[1].arg.checkpoint = [stored.checkpoint EXCEPT !.file = file[u]]
              /\ M[1].arg.token = stored.token]_vars

\* C8 (resume correctness): when the decision function answers 'yes' for
\* the cached Track that upload() found (chains[c].cached, read from the
\* store when upload() was called), a Track holding a checkpoint and a
\* token, the first attempt calls
\* the transfer primitive with the cached remote file name, the cached
\* checkpoint paired with the current file object, and the cached token, and
\* neither calls the token provider nor emits beforeGetToken / afterGetToken.
C8_ResumeFromCache ==
  [][\A c \in DOMAIN chains :
       (/\ UseCacheResolves(c, "yes")
        /\ chains[c].cached.checkpoint # Null
        /\ chains[c].cached.token # Undefined)
       => LET cached == chains[c].cached
              W == Of(log', "uploadWork")
              M == Of(log', "multipartUpload")
          IN  /\ Len(W) = 1 /\ W[1].arg.tryCount = 0 /\ W[1].arg.resume = TRUE
              /\ Len(M) = 1
              /\ M[1].arg.fileName = cached.fileName
              /\ M[1].arg.file = chains[c].file
              /\ M[1].arg.checkpoint =
                   [cached.checkpoint EXCEPT !.file = chains[c].file]
              /\ M[1].arg.checkpoint.file # cached.checkpoint.file
              /\ M[1].arg.token = cached.token
              /\ Of(log', "beforeGetToken") = <<>>
              /\ Of(log', "getToken") = <<>>
              /\ Of(log', "afterGetToken") = <<>>
              /\ chains'[c].pc = "transfer"]_vars

\* C8 witness: the decision function was consulted and answered 'yes', and
\* the first attempt has just started its transfer from the cached checkpoint
C8_Witness ==
  \E c \in DOMAIN chains :
    /\ chains[c].pc = "transfer"
    /\ chains[c].asked /\ chains[c].cacheResult = "yes"
    /\ chains[c].tryCount = 0
    /\ chains[c].cached.checkpoint # Null
    /\ Len(Of(log, "multipartUpload")) = 1
    /\ Of(log, "multipartUpload")[1].arg.checkpoint.done >= 1
    /\ Of(log, "multipartUpload")[1].arg.token = chains[c].cached.token

\* C9 (resume right after token acquisition), as claimed: an upload() that
\* finds a stored Track with a token and a null checkpoint and chooses resume
\* (resume = true passed, or the decision 'yes') does not throw; it starts
\* the transfer with the cached token and requests no token.
C9_ResumeAfterToken ==
  \A c \in DOMAIN chains :
    (/\ chains[c].pc \in {"thrown", "token", "granted", "transfer"}
     /\ chains[c].tryCount = 0
     /\ chains[c].cached # Null
     /\ chains[c].cached.token # Undefined
     /\ chains[c].cached.checkpoint = Null
     /\ (chains[c].resumeParam \/ chains[c].cacheResult = "yes"))
    => /\ chains[c].pc = "transfer"
       /\ chains[c].track.token = chains[c].cached.token

\* the Track a fresh start gets: nothing transferred, no checkpoint, no token
IsFresh(track) ==
  track.percent = 0 /\ track.checkpoint = Null /\ track.token = Undefined

\* C10 (resume policy decision table), as claimed.  For the step of an
\* upload() call (made directly or by resume()) on a file, with cached the
\* Track stored under the call's fingerprint: (i) no cached Track: the
\* decision function is not consulted and uploadWork starts with a fresh
\* Track and resume = false; (ii) a cached Track and resume = true passed:
\* the decision function is not consulted and uploadWork starts with the
\* cached Track (its file restored) and resume = true; (iii) otherwise the
\* decision function is consulted once and uploadWork does not start before
\* it answers.  For the step in which it answers: 'yes' starts uploadWork
\* with the cached Track and resume = true, 'no' with a fresh Track and
\* resume = false, 'cancel' starts nothing; it is not consulted again.
C10_DecisionTable ==
  [][/\ (Len(chains') = Len(chains) + 1 /\ chains'[Len(chains')].file # Null)
        => LET ch == chains'[Len(chains')]
               cached == getTrack(localStorage', ch.hash)
               W == Of(log', "uploadWork")
               U == Of(log', "useCache")
           IN  /\ cached = Null
                    => /\ U = <<>>
                       /\ Len(W) = 1 /\ W[1].arg.tryCount = 0
                       /\ IsFresh(W[1].arg.track) /\ W[1].arg.resume = FALSE
               /\ (cached # Null /\ ch.resumeParam)
                    => /\ U = <<>>
                       /\ Len(W) = 1 /\ W[1].arg.tryCount = 0
                       /\ W[1].arg.track.checkpoint =
                            [file |-> ch.file, done |-> cached.checkpoint.done]
                       /\ W[1].arg.track.token = cached.token
                       /\ W[1].arg.track.fileName = cached.fileName
                       /\ W[1].arg.resume = TRUE
               /\ (cached # Null /\ ~ch.resumeParam)
                    => /\ Len(U) = 1 /\ U[1].arg.track = cached
                       /\ W = <<>>
                       /\ ch.pc = "useCache"
     /\ \A c \in DOMAIN chains :
          (chains[c].pc = "useCache" /\ chains'[c].pc # "useCache")
          => LET ch == chains'[c]
                 cached == chains[c].cached
                 W == Of(log', "uploadWork")
             IN  /\ Of(log', "useCache") = <<>>
                 /\ ch.cacheResult \in {"yes", "no", "cancel"}
                 /\ ch.cacheResult = "yes"
                      => /\ Len(W) = 1 /\ W[1].arg.tryCount = 0
                         /\ W[1].arg.track.checkpoint =
                              [file |-> ch.file, done |-> cached.checkpoint.done]
                         /\ W[1].arg.track.token = cached.token
                         /\ W[1].arg.track.fileName = cached.fileName
                         /\ W[1].arg.resume = TRUE
                 /\ ch.cacheResult = "no"
                      => /\ Len(W) = 1 /\ W[1].arg.tryCount = 0
                         /\ IsFresh(W[1].arg.track) /\ W[1].arg.resume = FALSE
                 /\ ch.cacheResult = "cancel"
                      => log' = <<>> /\ ~Live(ch)]_vars

\* the fields of the instances that observers and control operations read
Fields == <<client, file, hash, isPausedInner, hasBegin>>

\* C11 (policy cancel is a no-op): the step of an upload() call that ends
\* waiting for the decision function changes nothing but the store, which
\* becomes the swept store, and logs nothing but the consultation; the step
\* in which the decision function answers 'cancel' logs nothing (no event, no
\* token request, no transfer), leaves the store and the fields of the
\* instance as they were, and leaves the call with no continuation.
C11_CancelIsNoOp ==
  [][/\ (/\ Len(chains') = Len(chains) + 1
         /\ chains'[Len(chains')].pc = "useCache")
        => LET ch == chains'[Len(chains')]
           IN  /\ Kinds(log') = <<"useCache">>
               /\ localStorage' =
                    cleanTracks(localStorage, options[ch.u].expireTime, now)
               /\ Fields' = Fields
     /\ \A c \in DOMAIN chains :
          UseCacheResolves(c, "cancel")
          => /\ log' = <<>>
             /\ localStorage' = localStorage
             /\ Fields' = Fields
             /\ ~Live(chains'[c])
             /\ \A d \in DOMAIN chains : d # c => chains'[d] = Forget(chains)[d]]_vars

\* C11 witness: the decision function has just answered 'cancel'; the call
\* is over, nothing was logged, and the Track it asked about is still stored
C11_Witness ==
  \E c \in DOMAIN chains :
    /\ chains[c].pc = "return"
    /\ chains[c].asked /\ chains[c].cacheResult = "cancel"
    /\ log = <<>>
    /\ getTrack(localStorage, chains[c].hash) = chains[c].cached

\* the text stored under key parses to a record with a lastTime > 0 that is
\* more than maxAge before time
OlderThan(ls, key, maxAge, time) ==
  /\ ls[key].json = "object"
  /\ ls[key].v # Null
  /\ "lastTime" \in DOMAIN ls[key].v
  /\ ls[key].v.lastTime > 0
  /\ time - ls[key].v.lastTime > maxAge

\* C12 (expiry sweep): a step of cleanTracks(maxAge) removes every entry
\* under the namespace prefix whose value parses to a record with lastTime > 0
\* and now - lastTime > maxAge, and leaves every other entry (not older than
\* maxAge, malformed or empty text, no valid lastTime, key outside the
\* prefix) with the value it had; it adds nothing.
C12_ExpirySweep ==
  [][\A u \in insts :
       Sweep(u)
       => /\ DOMAIN localStorage' \subseteq DOMAIN localStorage
          /\ \A key \in DOMAIN localStorage :
               IF /\ key.prefix = storageKeyPrefix
                  /\ OlderThan(localStorage, key, options[u].expireTime, now)
               THEN key \notin DOMAIN localStorage'
               ELSE /\ key \in DOMAIN localStorage'
                    /\ localStorage'[key] = localStorage[key]]_vars

\* C12 witness: a sweep has just run on a store that held, under the
\* prefix, an expired entry and an entry exactly maxAge old, and outside the
\* prefix an entry as old as the expired one; only the first is gone
C12_Witness ==
  /\ Len(log) = 1 /\ log[1].kind = "cleanTracks"
  /\ LET before == log[1].arg.store
         maxAge == options[log[1].u].expireTime
     IN  \E k1, k2, k3 \in DOMAIN before :
           /\ k1.prefix = storageKeyPrefix /\ k2.prefix = storageKeyPrefix
           /\ k3.prefix # storageKeyPrefix
           /\ OlderThan(before, k1, maxAge, now)
           /\ OlderThan(before, k3, maxAge, now)
           /\ before[k2].json = "object" /\ before[k2].v # Null
           /\ "lastTime" \in DOMAIN before[k2].v
           /\ now - before[k2].v.lastTime = maxAge
           /\ DOMAIN localStorage = {k2, k3}

\* the seven values of an upload() call: the file's name, size, mime type
\* and modification time, and the call's fileType, subCategory and extension,
\* each taken from the instance options where the call leaves it unset (the
\* extension, unset there too, from the file name; without its leading dot
\* and in lower case)
SevenValues(opt, f, p) ==
  <<f.name, f.size, f.type, f.lastModified,
    IF p.fileType # 0 THEN p.fileType ELSE opt.fileType,
    IF p.subCategory # 0 THEN p.subCategory ELSE opt.subCategory,
    toLowerCase(StripDot(
      IF p.fileExtension # <<>> THEN p.fileExtension
      ELSE IF opt.fileExtension # <<>> THEN opt.fileExtension
      ELSE getExt(f.name)))>>
SevenOf(ch) == SevenValues(options[ch.u], ch.file, ch.arg)

\* C13 (fingerprint identity): two upload() calls use the same Track Store
\* key exactly when their seven values are equal, whichever instance makes
\* them and whatever else differs; the Track of a call whose token has
\* arrived is stored under that key, and a call finds a cached Track only if
\* an earlier call with the same seven values stored one.
C13_FingerprintIdentity ==
  \A c, d \in DOMAIN chains :
    /\ SevenOf(chains[c]) = SevenOf(chains[d])
         <=> Key(chains[c].hash) = Key(chains[d].hash)
    /\ chains[c].pc \in {"granted", "transfer"}
         => Key(chains[c].hash) \in DOMAIN localStorage
    /\ chains[d].cached # Null
         => \E b \in DOMAIN chains :
              b < d /\ SevenOf(chains[b]) = SevenOf(chains[d])

\* C13 witness: two calls that differ in the instance, in its options and in
\* the params passed, with equal seven values: the first stored its Track,
\* the second found it, and the store holds one key
C13_Witness ==
  /\ Len(chains) = 2
  /\ chains[1].u # chains[2].u
  /\ options[chains[1].u] # options[chains[2].u]
  /\ chains[1].arg # chains[2].arg
  /\ SevenOf(chains[1]) = SevenOf(chains[2])
  /\ chains[1].pc = "transfer"
  /\ chains[2].cached # Null
  /\ Cardinality(DOMAIN localStorage) = 1

\* the active intents of instance u in the chains chs: those fetching a
\* token, transferring (a transfer that was sent cancel and has yet to
\* reject is not counted), or waiting in retry back-off
Active(chs, u) ==
  {c \in DOMAIN chs :
     /\ chs[c].u = u
     /\ \/ chs[c].pc \in {"token", "granted", "timer"}
        \/ chs[c].pc = "transfer" /\ ~chs[c].cancelled}

\* C14 (single active intent), as claimed: with a caller that invokes
\* upload() only when no earlier invocation is pending, an instance never has
\* more than one active intent.
C14_SingleActiveIntent ==
  \A u \in insts : Cardinality(Active(chains, u)) <= 1

\* the kinds of the last n entries of a log (fewer if it is shorter)
LastKinds(entries, n) ==
  LET k == Len(entries)
  IN  [i \in 1..Min(n, k) |-> entries[k - Min(n, k) + i].kind]

\* C15 (observer-vetoed retry), as claimed: the step in which an observer
\* vetoes the beforeRetry of a chain ends with fail, beforeRetry, end emitted
\* in that order, leaves the chain with no timer and no continuation, and
\* leaves the Track Store as it was.
C15_VetoedRetry ==
  [][\A c \in DOMAIN chains :
       (Live(chains[c]) /\ chains'[c].pc = "vetoed")
       => /\ LastKinds(log', 3) = <<"fail", "beforeRetry", "end">>
          /\ log'[Len(log') - 1].arg.canceled
          /\ ~Live(chains'[c])
          /\ localStorage' = localStorage]_vars

\* C16 (failure never deletes the Track): a step in which an attempt fails
\* (whether a retry is scheduled, vetoed, or the budget is exhausted) leaves
\* the Track Store as it was, so the Track the chain last persisted is still
\* there; and a step after which an entry is gone is a successful completion
\* or a stop() of the instance that remembers its fingerprint, or an upload()
\* call's sweep with the entry older than expireTime.
C16_FailureKeepsTrack ==
  [][/\ Of(log', "fail") # <<>> => localStorage' = localStorage
     /\ \A c \in DOMAIN chains :
          (/\ chains[c].pc \in {"token", "transfer"}
           /\ chains'[c].pc \in {"timer", "vetoed", "failed"})
          => localStorage' = localStorage
     /\ \A key \in DOMAIN localStorage :
          key \notin DOMAIN localStorage'
          => \/ \E u \in insts :
                  Stop(u) /\ hash[u] # Null /\ key = Key(hash[u])
             \/ \E c \in DOMAIN chains :
                  /\ TransferResolves(c)
                  /\ hash[chains[c].u] # Null
                  /\ key = Key(hash[chains[c].u])
             \/ /\ Len(chains') = Len(chains) + 1
                /\ key.prefix = storageKeyPrefix
                /\ OlderThan(localStorage, key,
                             options[chains'[Len(chains')].u].expireTime, now)]_vars

\* C16 witness: a chain that persisted a checkpoint has just given up (fail,
\* then end), and the Track with that checkpoint is in the store
C16_Witness ==
  \E c \in DOMAIN chains :
    /\ chains[c].pc = "failed"
    /\ Kinds(log) = <<"fail", "end">>
    /\ chains[c].track.checkpoint # Null
    /\ getTrack(localStorage, chains[c].hash) # Null
    /\ getTrack(localStorage, chains[c].hash).checkpoint.done
         = chains[c].track.checkpoint.done

\* C17 (token failure is handled like a transfer failure), as claimed: the
\* step in which the token provider rejects in an attempt with tryCount n
\* emits fail; then, if n + 1 <= maxTryCount, beforeRetry with tryCount n + 1
\* (and, unless an observer vetoes it, the retry timer is set and the next
\* attempt will run with tryCount n + 1, the budget transfer failures use
\* too), else end; no client is created and no transfer is started.
C17_TokenFailure ==
  [][\A c \in DOMAIN chains :
       (chains[c].pc = "token" /\ chains'[c].pc \in {"timer", "vetoed", "failed"})
       => LET n == chains[c].tryCount
              max == options[chains[c].u].maxTryCount
              ks == LastKinds(log', Len(log') - Len(Cur.log))
              last == log'[Len(log')]
          IN  /\ Of(SubSeq(log', Len(Cur.log) + 1, Len(log')), "multipartUpload") = <<>>
              /\ Of(SubSeq(log', Len(Cur.log) + 1, Len(log')), "prepare") = <<>>
              /\ client' = client
              /\ chains'[c].tryCount = n
              /\ IF n + 1 <= max
                 THEN \/ /\ ks = <<"fail", "beforeRetry">>
                         /\ last.arg.tryCount = n + 1 /\ ~last.arg.canceled
                         /\ chains'[c].pc = "timer"
                      \/ /\ ks = <<"fail", "beforeRetry", "end">>
                         /\ chains'[c].pc = "vetoed"
                 ELSE /\ ks = <<"fail", "end">>
                      /\ chains'[c].pc = "failed"]_vars

\* the events of invocation c end the chain in the open: a done, or a fail
\* with no later attempt that is followed by end
Reported(c) ==
  LET ks == KindsOf(c)
  IN  \/ \E i \in 1..Len(ks) : ks[i] = "done"
      \/ /\ Len(ks) >= 2
         /\ ks[Len(ks)] = "end"
         /\ \E i \in 1..(Len(ks) - 1) :
              /\ ks[i] = "fail"
              /\ \A j \in (i + 1)..(Len(ks) - 1) : ks[j] = "beforeRetry"

\* C18 (no silent hang), as claimed: with collaborators that eventually
\* answer, a retry timer that eventually fires and a caller that never calls
\* pause(), resume() or stop(), every upload() invocation that was not
\* declined by the decision function eventually has no pending attempt and
\* no pending retry timer, and has by then emitted done or a final fail
\* followed by end.
C18_NoSilentHang ==
  \A c \in 1..MaxChains :
    (c \in DOMAIN chains) ~>
      (/\ c \in DOMAIN chains
       /\ ~Live(chains[c])
       /\ chains[c].pc = "return" \/ Reported(c))

\* an attempt of instance u is transferring
Transferring(u) ==
  \E c \in DOMAIN chains : chains[c].u = u /\ chains[c].pc = "transfer"

\* C19 (pause() acts only on an in-flight transfer), as claimed: in every
\* state, pause() changes something (sends cancel, sets isPaused, emits
\* isPausedChanged) only if an attempt of the instance is transferring and
\* isPaused is false; otherwise (before any upload, after done, after retry
\* exhaustion or a veto, or when already paused) it sends no cancel, leaves
\* isPaused as it is and emits nothing.
C19_PauseOnlyInFlight ==
  \A u \in insts :
    LET s0 == [Cur EXCEPT !.log = <<>>]
        s1 == pause(s0, u)
    IN  IF Transferring(u) /\ ~isPausedInner[u]
        THEN TRUE
        ELSE /\ Of(s1.log, "cancel") = <<>>
             /\ s1.isPausedInner[u] = isPausedInner[u]
             /\ s1.log = <<>>

\* instance u was paused while an attempt was transferring, and has not been
\* resumed or stopped since: the cancelled transfer is still to reject, or
\* has just rejected
PausedMidTransfer(u) ==
  /\ isPausedInner[u]
  /\ \E c \in DOMAIN chains :
       /\ chains[c].u = u
       /\ \/ chains[c].pc = "cancelled"
          \/ chains[c].pc = "transfer" /\ chains[c].cancelled
       /\ ~chains[c].stopped

\* C20 (resume() is idempotent and gated on paused), as claimed: in every
\* state, resume() with isPaused false changes nothing (no upload(), no
\* event); and after a pause mid-transfer, two resume() calls in a row start
\* exactly one attempt and emit exactly one isPausedChanged(false).
C20_ResumeTwice ==
  \A u \in insts :
    LET s0 == [Cur EXCEPT !.log = <<>>]
        s1 == resume(s0, u, options[u], now)
        s2 == resume(s1, u, options[u], now)
    IN  /\ ~isPausedInner[u] => s1 = s0
        /\ PausedMidTransfer(u) =>
             /\ Len(Of(s2.log, "uploadWork")) = 1
             /\ Len(SelectSeq(s2.log, LAMBDA e :
                      e.kind = "isPausedChanged" /\ ~e.arg.value)) = 1

\* the checkpoint of the last progress event of invocation c so far, if any
LastProgress(c) ==
  LET P == SelectSeq(log, LAMBDA e : e.c = c /\ e.kind = "progress")
  IN  IF P = <<>> THEN Null ELSE P[Len(P)].arg.checkpoint

\* the checkpoint invocation c started with: the cached one, paired with the
\* current file, when the chain resumes from the cached Track, else null
StartCheckpoint(c) ==
  IF chains[c].cacheResult = "yes"
  THEN [chains[c].cached.checkpoint EXCEPT !.file = chains[c].file]
  ELSE Null

\* what the steps of a retry attempt do, given the checkpoint cp(c) the
\* transfer primitive is expected to get: the timer step runs uploadWork once
\* with tryCount one higher and resume false, and requests a token whether or
\* not the Track holds one; the step in which that token arrives stores it
\* and its remote file name in the Track; the step in which uploadWork goes
\* on calls the transfer primitive with them and with cp(c)
RetryInputs(cp(_)) ==
  \A c \in DOMAIN chains :
    LET new == SubSeq(log', Len(Cur.log) + 1, Len(log'))
        W == Of(new, "uploadWork")
        M == Of(new, "multipartUpload")
    IN  /\ RetryTimer(c) =>
             /\ chains'[c].tryCount = chains[c].tryCount + 1
             /\ Len(W) = 1
             /\ W[1].arg.tryCount = chains[c].tryCount + 1
             /\ W[1].arg.resume = FALSE
             /\ Len(Of(new, "getToken")) = 1
             /\ M = <<>>
             /\ chains'[c].pc = "token"
        /\ (GetTokenResolves(c) /\ chains[c].tryCount >= 1) =>
             LET ret == FreshToken(c, chains[c].tryCount)
                 stored == getTrack(localStorage', chains[c].hash)
             IN  /\ stored # Null
                 /\ stored.token = ret
                 /\ stored.fileName = ret.fileName
                 /\ M = <<>>
        /\ (TokenAwaitReturns(c) /\ chains[c].tryCount >= 1) =>
             LET ret == FreshToken(c, chains[c].tryCount)
             IN  /\ Len(M) = 1
                 /\ M[1].arg.token = ret
                 /\ M[1].arg.fileName = ret.fileName
                 /\ M[1].arg.checkpoint = cp(c)

\* C21 (retry attempt inputs), as claimed: every retry attempt runs with
\* resume = false and tryCount one higher, requests a fresh token even when
\* the Track holds one, overwrites the Track's token and remote file name,
\* and hands the transfer primitive the checkpoint of the chain's last
\* progress tick, null if the chain had no progress tick.
C21_RetryInputs ==
  [][RetryInputs(LastProgress)]_vars

\* the checkpoint of the chain's last progress tick or, if it had none, the
\* checkpoint the chain started with
LastOrStartCheckpoint(c) ==
  IF LastProgress(c) # Null THEN LastProgress(c) ELSE StartCheckpoint(c)

\* C21, amended: the same, where the checkpoint handed over when the chain
\* had no progress tick is the one the chain started with: null for a fresh
\* Track, the cached checkpoint for a chain resumed from a cached Track.
C21_RetryInputsAmended ==
  [][RetryInputs(LastOrStartCheckpoint)]_vars

\* a retry attempt of a chain resumed from a cached Track has received its
\* fresh token and started its transfer from the cached checkpoint, the
\* chain having had no progress tick of its own
C21_Witness ==
  \E c \in DOMAIN chains :
    /\ chains[c].pc = "transfer"
    /\ chains[c].tryCount >= 1
    /\ chains[c].track.token = FreshToken(c, chains[c].tryCount)
    /\ chains[c].cacheResult = "yes"
    /\ chains[c].xfer = chains[c].cached.checkpoint.done
    /\ LastProgress(c) = Null

\* what a progress step and a token step write, given same(cp, st): the
\* stored checkpoint st is taken to be the callback's checkpoint cp.  The
\* step of a progress callback reporting part k of Parts emits one progress
\* event with percent = 100 * k / Parts and the callback's checkpoint, and
\* leaves under the attempt's fingerprint a Track with that percent, that
\* checkpoint, lastTime = now and the attempt's token, changing no other
\* entry of the store; the step in which an attempt obtains its token stores
\* the Track with that token before the transfer is called, so before any
\* tick of the attempt.
ProgressPersisted(same(_, _)) ==
  \A c \in DOMAIN chains :
    LET new == SubSeq(log', Len(Cur.log) + 1, Len(log'))
        P == Of(new, "progress")
        stored == getTrack(localStorage', chains[c].hash)
    IN  /\ Progress(c) =>
             LET k == chains[c].xfer + 1
             IN  /\ Len(new) = 1 /\ Len(P) = 1
                 /\ P[1].arg.percent = (100 * k) \div Parts
                 /\ P[1].arg.checkpoint = [done |-> k, file |-> chains[c].file]
                 /\ stored # Null
                 /\ stored.percent = P[1].arg.percent
                 /\ same(P[1].arg.checkpoint, stored.checkpoint)
                 /\ stored.lastTime = now
                 /\ stored.token # Undefined
                 /\ stored.token = chains[c].track.token
                 /\ DOMAIN localStorage' = DOMAIN localStorage \cup {Key(chains[c].hash)}
                 /\ \A key \in DOMAIN localStorage :
                      key # Key(chains[c].hash) => localStorage'[key] = localStorage[key]
        /\ GetTokenResolves(c) =>
             /\ stored # Null
             /\ stored.token = FreshToken(c, chains[c].tryCount)
             /\ P = <<>>
             /\ Kinds(new) = <<"afterGetToken">>
        /\ TokenAwaitReturns(c) =>
             /\ Kinds(new) = <<"prepare", "multipartUpload">>
             /\ localStorage' = localStorage

Equal(cp, st) == st = cp
EqualButFile(cp, st) ==
  /\ DOMAIN st = DOMAIN cp
  /\ \A k \in DOMAIN cp \ {"file"} : st[k] = cp[k]
  /\ st.file = EmptyObject

\* C22 (progress persistence), as claimed: every progress callback emits a
\* progress event with percent = 100 * p and the callback's checkpoint and
\* writes the Track with exactly that percent, that checkpoint and a
\* refreshed lastTime under the attempt's fingerprint, the stored checkpoint
\* being equal to the event's; a token obtained in the attempt is stored
\* before the first tick.
C22_ProgressPersisted ==
  [][ProgressPersisted(Equal)]_vars

\* C22, amended: the same, where the stored checkpoint equals the event's in
\* every field but the file, which is stored as an empty object.
C22_ProgressPersistedAmended ==
  [][ProgressPersisted(EqualButFile)]_vars

\* a later progress tick of an attempt has been persisted: the stored Track
\* holds the whole file's percent, a lastTime later than the upload's start
\* and a checkpoint with every part done and an empty object for the file
C22_Witness ==
  \E c \in DOMAIN chains :
    /\ chains[c].pc = "transfer"
    /\ chains[c].xfer = Parts
    /\ Of(log, "progress") # <<>>
    /\ getTrack(localStorage, chains[c].hash) # Null
    /\ getTrack(localStorage, chains[c].hash).percent = 100
    /\ getTrack(localStorage, chains[c].hash).lastTime = now
    /\ getTrack(localStorage, chains[c].hash).checkpoint =
         [done |-> Parts, file |-> EmptyObject]
    /\ now > 1

\* Where an invocation stands after one more entry e of its history, read as
\* the claimed order: "new" before uploadWork, "first" at the entry of the
\* first attempt, "begun" at the start of an attempt's work, then "asking"
\* (beforeGetToken), "granted" (afterGetToken), "prepared" (prepare and any
\* progress), "done", "failed" (fail), "retrying" (beforeRetry) and "ended"
\* (end); "bad" once an entry comes out of order.  Calls to collaborators
\* are not events and change nothing.
Move(st, e) ==
  IF e.kind \in {"useCache", "getToken", "multipartUpload", "cancel", "throw"}
  THEN st
  ELSE IF e.kind = "isPausedChanged"
  THEN IF st \in {"new", "first"} THEN "bad" ELSE st
  ELSE IF e.kind = "uploadWork"
  THEN IF st = "new" /\ e.arg.tryCount = 0 THEN "first"
       ELSE IF st = "retrying" /\ e.arg.tryCount >= 1 THEN "begun"
       ELSE "bad"
  ELSE IF st = "first" /\ e.kind = "begin" THEN "begun"
  ELSE IF st = "begun" /\ e.kind = "beforeGetToken" THEN "asking"
  ELSE IF st = "begun" /\ e.kind = "prepare" THEN "prepared"
  ELSE IF st = "asking" /\ e.kind = "afterGetToken" THEN "granted"
  ELSE IF st = "asking" /\ e.kind = "fail" THEN "failed"
  ELSE IF st = "granted" /\ e.kind = "prepare" THEN "prepared"
  ELSE IF st = "prepared" /\ e.kind = "progress" THEN "prepared"
  ELSE IF st = "prepared" /\ e.kind = "done" THEN "done"
  ELSE IF st = "prepared" /\ e.kind = "fail" THEN "failed"
  ELSE IF st = "failed" /\ e.kind = "beforeRetry" THEN "retrying"
  ELSE IF st \in {"failed", "retrying"} /\ e.kind = "end" THEN "ended"
  ELSE "bad"

RECURSIVE Walk(_, _)
Walk(es, st) == IF es = <<>> THEN st ELSE Walk(Tail(es), Move(st, Head(es)))

\* the order of the events alone: every invocation's history so far follows
\* the claimed order
InOrder == \A c \in DOMAIN chains : Walk(EventsOf(c), "new") # "bad"

\* where begin has been emitted for a pending invocation, isPaused is false
\* and the file and the fingerprint remembered are the invocation's
Remembered ==
  \A c \in DOMAIN chains :
    (Live(chains[c]) /\ Count(c, "begin") >= 1) =>
      /\ ~isPausedInner[chains[c].u]
      /\ file[chains[c].u] = chains[c].file
      /\ hash[chains[c].u] = chains[c].hash

\* C23 (event order within a chain), as claimed, with a caller that only
\* uploads: begin is emitted exactly once per upload() call not declined by
\* the decision function, at the entry of its first attempt and before any
\* other event of the chain, never by a retry; within each attempt the order
\* is beforeGetToken, afterGetToken (when a token is requested), prepare,
\* progress ticks, then done or fail; and from begin on, isPaused is false
\* and the file and fingerprint are remembered.
C23_EventOrder ==
  /\ InOrder
  /\ Remembered
  /\ \A c \in DOMAIN chains :
       /\ Count(c, "begin") <= 1
       /\ chains[c].pc \in {"token", "granted", "transfer", "timer", "done", "failed",
                            "vetoed", "cancelled", "thrown"}
            => Count(c, "begin") = 1
       /\ chains[c].pc = "return" => Count(c, "begin") = 0

\* a step of instance u: a call of its caller, or a continuation of one of
\* its upload() invocations
StepOf(u) ==
  \/ Upload(u, OwnFile(u), NoParam)
  \/ Stop(u)
  \/ \E c \in DOMAIN chains :
       /\ chains[c].u = u
       /\ ChainStep(c) \/ TransferCancelled(c)

\* C24 (different files never contend), as claimed: while an upload of
\* another instance under a different fingerprint is in progress, no step of
\* instance u (upload, progress tick, token save, success cleanup, stop,
\* retry) changes the Track Store entry under that fingerprint: it neither
\* writes, overwrites nor deletes it.
C24_NoContention ==
  [][\A u \in insts :
       StepOf(u) =>
         \A b \in DOMAIN chains :
           (/\ chains[b].u # u
            /\ chains[b].pc \in {"token", "granted", "transfer", "timer"}
            /\ chains[b].hash # getHash(getOssItem(OwnFile(u),
                                  EffectiveParam(options[u], OwnFile(u), NoParam))))
           => getItem(localStorage', Key(chains[b].hash))
                = getItem(localStorage, Key(chains[b].hash))]_vars

\* C25 (expired Tracks are never resumed): in every step in which upload()
\* is called, directly or by resume(), on a file under whose fingerprint the
\* store holds a Track with lastTime more than expireTime ago, the lookup
\* finds nothing, the decision function is not consulted, and uploadWork
\* starts with resume = false and a fresh Track, requesting a token; the
\* expired entry is gone.
C25_ExpiredNotResumed ==
  [][Len(chains') = Len(chains) + 1 =>
       LET c == Len(chains')
           u == chains'[c].u
           h == chains'[c].hash
           new == SubSeq(log', Len(Cur.log) + 1, Len(log'))
           W == Of(new, "uploadWork")
       IN  (/\ h # Null
            /\ Key(h) \in DOMAIN localStorage
            /\ OlderThan(localStorage, Key(h), options[u].expireTime, now))
           => /\ chains'[c].cached = Null
              /\ Of(new, "useCache") = <<>>
              /\ ~chains'[c].asked
              /\ Len(W) = 1
              /\ W[1].arg.resume = FALSE
              /\ IsFresh(W[1].arg.track)
              /\ W[1].arg.track.lastTime = now
              /\ Len(Of(new, "getToken")) = 1
              /\ chains'[c].pc = "token"
              /\ Key(h) \notin DOMAIN localStorage']_vars

\* resume() has just called upload() for a paused transfer whose Track, saved
\* when the token arrived and not deleted by a stop(), was older than
\* expireTime: the new invocation found no Track and waits for a fresh token
C25_Witness ==
  \E b, c \in DOMAIN chains :
    /\ b # c
    /\ chains[b].pc = "transfer" /\ chains[b].cancelled /\ ~chains[b].stopped
    /\ chains[b].track.token # Undefined
    /\ now - chains[b].track.lastTime > options[chains[b].u].expireTime
    /\ chains[c].pc = "token"
    /\ chains[c].u = chains[b].u
    /\ chains[c].hash = chains[b].hash
    /\ chains[c].resumeParam
    /\ chains[c].cached = Null
    /\ ~chains[c].resume
    /\ getTrack(localStorage, chains[c].hash) = Null

\* C26 (paused means quiescent), as claimed: in every state where isPaused
\* is true, the instance has no retry timer pending, no token request
\* pending, and no transfer under way that has not been cancelled.
C26_PausedQuiescent ==
  \A u \in insts : isPausedInner[u] => Active(chains, u) = {}

\* C27 (paused implies a remembered file), as claimed: in every state,
\* isPaused true implies that the remembered file and fingerprint are not
\* null, so that resume() never calls upload() with a null file.
C27_PausedRemembers ==
  \A u \in insts : isPausedInner[u] => (file[u] # Null /\ hash[u] # Null)

\* the first call of the interval whose settled promise satisfies P
First(P(_)) ==
  CHOOSE k \in 1..Len(iv.results) :
    P(iv.results[k]) /\ \A j \in 1..(k - 1) : ~P(iv.results[j])
StopIn(r) == r.stop
Rejected(r) == r.result = "rejected"

\* interval's protocol for a call with valid arguments, a finite iterations
\* setting n and a func that returns promises, given how the root promise is
\* to end after the first call k in which stop() was invoked (stopEnd(k)):
\* func is called with 1, 2, ... in order, each call after the previous
\* call's promise settled; if every promise resolved and none called stop(),
\* the root promise is resolved exactly when n calls are done; after the
\* first call in which stop() was invoked the root promise has ended as
\* stopEnd says and there is no later call; with stopOnError true the root
\* promise is rejected on the first rejected promise, with no later call;
\* with stopOnError false a rejection counts as a resolution.
Protocol(stopEnd(_)) ==
  LET n == iv.settings.iterations
      R == iv.results
      K == Len(iv.calls)
      soe == iv.settings.stopOnError
      stopped == \E i \in 1..Len(R) : R[i].stop
      rejected == \E i \in 1..Len(R) : R[i].result = "rejected"
  IN  (iv.state \notin {"idle", "thrown"} /\ iv.err # "notPromise" /\ n # Infinity)
      => /\ iv.calls = [i \in 1..K |-> i]
         /\ Len(R) = K \/ (Len(R) = K - 1 /\ iv.state = "func")
         /\ iv.state = "setTimeout" => Len(R) = K
         /\ K <= n
         /\ (~stopped /\ ~rejected) =>
              /\ iv.root = "resolved" <=> Len(R) = n
              /\ iv.root # "rejected"
         /\ stopped =>
              /\ K = First(StopIn)
              /\ iv.root = stopEnd(First(StopIn))
         /\ (soe /\ rejected) =>
              /\ K = First(Rejected)
              /\ iv.root = "rejected"
         /\ ~soe =>
              /\ iv.root # "rejected"
              /\ ~stopped => (iv.root = "resolved" <=> Len(R) = n)

Resolves(k) == "resolved"
ResolvesUnlessError(k) ==
  IF iv.settings.stopOnError /\ iv.results[k].result = "rejected"
  THEN "rejected" ELSE "resolved"

\* C28 (interval iteration protocol), as claimed: func is called with
\* currentIteration = 1, 2, ... one call after the other; the root promise
\* resolves after exactly n calls if every promise resolves; it resolves
\* right after the first call in which stop() was invoked, with no later
\* call; with stopOnError true it rejects on the first rejected promise with
\* no later call; with stopOnError false a rejected promise is treated like a
\* resolved one.
C28_IntervalProtocol == Protocol(Resolves)

\* C28, amended: the same, where after the first call in which stop() was
\* invoked the root promise resolves if that call's promise resolved, or
\* rejected with stopOnError false, and rejects if that call's promise
\* rejected with stopOnError true.
C28_IntervalProtocolAmended == Protocol(ResolvesUnlessError)

\* an interval of three iterations has ended after its second call, in which
\* func invoked stop(): the root promise is resolved and no third call was made
C28_Witness ==
  /\ iv.state = "settled"
  /\ iv.settings.iterations = 3
  /\ iv.calls = <<1, 2>>
  /\ Len(iv.results) = 2
  /\ ~iv.results[1].stop /\ iv.results[2].stop
  /\ iv.root = "resolved"
====
